---- MODULE Spec2Model ----
(***************************************************************************)
(* jupyter_ydoc: YBaseDoc, YFile and YNotebook (src/jupyter_ydoc/ydoc.py)  *)
(* over a shared Y document.  The Y containers the classes hold are the    *)
(* state; every property setter, getter and method is one action.          *)
(*                                                                         *)
(* Values.  A JSON number is <<kind, whole, frac>> with kind "int" or      *)
(* "float" and frac the tenths of the value (0 for every int); None is     *)
(* <<"null", 0, 0>>.  A text (str, YText) is a sequence of one-character   *)
(* strings.  A dict (and a YMap) is a function over its keys, a list (and  *)
(* a YArray) a sequence.  A Y container is named <<what, handle>>.         *)
(***************************************************************************)
EXTENDS Integers, Sequences, FiniteSets, TLC

VARIABLES
    ystate,         \* YBaseDoc._ystate: the root map "state"
    ysource,        \* YFile._ysource: the root text "source"
    ycells,         \* YNotebook._ycells: the root array "cells", of [h, m]
    ymeta,          \* YNotebook._ymeta: the root map "meta"
    subs,           \* the engine's live subscriptions, [c, id, cb]
    subscriptions,  \* YBaseDoc._subscriptions: registry key -> subscription id
    last            \* the last call: its arguments, outcome and what it fired

vars == <<ystate, ysource, ycells, ymeta, subs, subscriptions, last>>

---------------------------------------------------------------------------
(* Bounds of the model *)

MaxCells == 2       \* cells in a notebook handed to the setter
MaxText == 2        \* characters of a text handed to YFile's setter, or typed
MaxSubs == 3        \* live subscriptions the engine holds at once
MaxOutputs == 1     \* outputs appended to the cells of a notebook

---------------------------------------------------------------------------
(* Values *)

Num(kind, whole, frac) == <<kind, whole, frac>>
None == <<"null", 0, 0>>
EmptyDict == <<>>

Callbacks == {"cb1", "cb2"}
Uuids == {"uuid-1", "uuid-2"}
Handles == 1 .. (2 * MaxCells)

Put(f, k, v) == [x \in (DOMAIN f) \cup {k} |-> IF x = k THEN v ELSE f[x]]
Restrict(f, S) == [x \in (DOMAIN f) \cap S |-> f[x]]

\* the root containers and the containers of the cell with handle h
YState == <<"state", 0>>
YSource == <<"source", 0>>
YCells == <<"cells", 0>>
YMeta == <<"meta", 0>>
CellMap(h) == <<"cell", h>>
CellSource(h) == <<"cell.source", h>>
CellOutputs(h) == <<"cell.outputs", h>>

---------------------------------------------------------------------------
(* utils.cast_all: every leaf of kind from_type becomes to_type(leaf).     *)
(* int(x) of a float drops its fraction; float(x) of an int keeps it.      *)

to_type(v, kind) == IF kind = "int" THEN Num("int", v[2], 0) ELSE Num("float", v[2], v[3])

cast_leaf(v, from_type, kind) == IF v[1] = from_type THEN to_type(v, kind) ELSE v

cast_dict(d, from_type, kind) == [k \in DOMAIN d |-> cast_leaf(d[k], from_type, kind)]

cast_cell(c, from_type, kind) ==
    [k \in DOMAIN c |->
        IF k = "execution_count" THEN cast_leaf(c[k], from_type, kind)
        ELSE IF k = "metadata" THEN cast_dict(c[k], from_type, kind)
        ELSE IF k = "outputs" THEN [i \in DOMAIN c[k] |-> cast_leaf(c[k][i], from_type, kind)]
        ELSE c[k]]

cast_cells(cs, from_type, kind) == [i \in DOMAIN cs |-> cast_cell(cs[i], from_type, kind)]

cast_all(nb, from_type, kind) ==
    [k \in DOMAIN nb |->
        IF k = "cells" THEN cast_cells(nb[k], from_type, kind)
        ELSE IF k = "metadata" THEN cast_dict(nb[k], from_type, kind)
        ELSE cast_leaf(nb[k], from_type, kind)]

---------------------------------------------------------------------------
(* The transaction scope: `with self._ydoc.begin_transaction() as t`.      *)
(* The scope commits when it is left, by its end or by an exception; a     *)
(* commit delivers one event to every container the scope changed, and     *)
(* each live subscription on such a container calls its callback once.     *)

NoFired == [cb \in Callbacks |-> 0]

Fired(txs) ==
    [cb \in Callbacks |->
        Cardinality({<<i, s>> \in (DOMAIN txs) \X subs : s.c \in txs[i] /\ s.cb = cb})]

\* the committed notebook containers at some instant
Committed(ycs, ym, ys) == [ycells |-> ycs, ymeta |-> ym, ystate |-> ys]

NoCall == [op |-> "init", ok |-> TRUE, nb |-> EmptyDict, caller |-> EmptyDict,
           text |-> <<>>, flag |-> FALSE, h |-> 0, ret |-> EmptyDict,
           mid |-> Committed(<<>>, EmptyDict, EmptyDict),
           tx |-> <<>>, fired |-> NoFired]

Call(op, ok, txs) == [NoCall EXCEPT !.op = op, !.ok = ok, !.tx = txs, !.fired = Fired(txs)]

---------------------------------------------------------------------------
(* YBaseDoc *)

Init ==
    /\ ystate = EmptyDict
    /\ ysource = <<>>
    /\ ycells = <<>>
    /\ ymeta = EmptyDict
    /\ subs = {}
    /\ subscriptions = EmptyDict
    /\ last = NoCall

\* dirty (getter): self._ystate["dirty"], a KeyError when the key is absent
dirty == [ok |-> "dirty" \in DOMAIN ystate,
          v |-> IF "dirty" \in DOMAIN ystate THEN ystate["dirty"] ELSE FALSE]

\* the guard of the setter: self.dirty != value
DirtyDiffers_Always(value) == TRUE
DirtyDiffers(value) == dirty.v # value

\* dirty (setter)
SetDirty(value) ==
    /\ IF ~dirty.ok
       THEN /\ last' = [Call("dirty", FALSE, <<>>) EXCEPT !.flag = value]
            /\ UNCHANGED ystate
       ELSE IF DirtyDiffers(value)
       THEN /\ ystate' = Put(ystate, "dirty", value)
            /\ last' = [Call("dirty", TRUE, <<{YState}>>) EXCEPT !.flag = value]
       ELSE /\ last' = [Call("dirty", TRUE, <<>>) EXCEPT !.flag = value]
            /\ UNCHANGED ystate
    /\ UNCHANGED <<ysource, ycells, ymeta, subs, subscriptions>>

\* another holder of the root (the ystate and ydoc properties hand it out)
\* writes a key of the shared state map in a transaction of its own
WriteState(key, value) ==
    /\ ystate' = Put(ystate, key, value)
    /\ last' = Call("write_state", TRUE, <<{YState}>>)
    /\ UNCHANGED <<ysource, ycells, ymeta, subs, subscriptions>>

\* unobserve: the subscriptions the engine still holds once every entry of
\* the registry has been released (lines 46-47)
Unobserved == {s \in subs : ~(s.c \in DOMAIN subscriptions /\ subscriptions[s.c] = s.id)}

Unobserve ==
    /\ subs' = Unobserved
    /\ subscriptions' = EmptyDict
    /\ last' = Call("unobserve", TRUE, <<>>)
    /\ UNCHANGED <<ystate, ysource, ycells, ymeta>>

\* container.observe(callback): a subscription with an id new on the container
SubscriptionId(live, c) ==
    CHOOSE n \in 1 .. (MaxSubs + 1) :
        /\ \A s \in live : ~(s.c = c /\ s.id = n)
        /\ \A m \in 1 .. (n - 1) : \E s \in live : s.c = c /\ s.id = m

Observing(live, c, callback) == [c |-> c, id |-> SubscriptionId(live, c), cb |-> callback]

\* the engine holds at most MaxSubs subscriptions on one container
WithinMaxSubs(live) ==
    \A c \in {s.c : s \in live} : Cardinality({s \in live : s.c = c}) <= MaxSubs

---------------------------------------------------------------------------
(* YFile *)

Chars == {"a", "b"}
Texts == UNION {[1 .. n -> Chars] : n \in 0 .. MaxText}

\* source (getter): str(self._ysource)
FileSource == ysource

\* lines 64-69: the text once the setter's transaction is over
Replaced_NoDelete(value) == ysource \o value
Replaced(value) ==
    LET cleared == IF Len(ysource) > 0 THEN <<>> ELSE ysource
    IN  IF value # <<>> THEN cleared \o value ELSE cleared

\* source (setter)
FileSetSource(value) ==
    /\ ysource' = Replaced(value)
    /\ last' = [Call("file_set", TRUE,
                     <<IF Len(ysource) > 0 \/ value # <<>> THEN {YSource} ELSE {}>>)
                 EXCEPT !.text = value]
    /\ UNCHANGED <<ystate, ycells, ymeta, subs, subscriptions>>

FileGetSource ==
    /\ last' = [Call("file_get", TRUE, <<>>) EXCEPT !.text = FileSource]
    /\ UNCHANGED <<ystate, ysource, ycells, ymeta, subs, subscriptions>>

\* observe: the registry entry of self._ysource is overwritten
FileObserve(callback) ==
    LET new == Observing(subs, YSource, callback)
    IN  /\ WithinMaxSubs(subs \cup {new})
        /\ subs' = subs \cup {new}
        /\ subscriptions' = Put(subscriptions, YSource, new.id)
        /\ last' = Call("observe", TRUE, <<>>)
        /\ UNCHANGED <<ystate, ysource, ycells, ymeta>>

\* a holder of the root types a character at the end of the text
TypeText(ch) ==
    /\ Len(ysource) < MaxText
    /\ ysource' = Append(ysource, ch)
    /\ last' = Call("type", TRUE, <<{YSource}>>)
    /\ UNCHANGED <<ystate, ycells, ymeta, subs, subscriptions>>

---------------------------------------------------------------------------
(* YNotebook.source (getter) *)

NumEq(v, n) == v[2] = n /\ v[3] = 0
NumLe(v, n) == v[2] < n \/ NumEq(v, n)

\* lines 89-91, on one cell of the snapshot
StripId_Below4(cell) ==
    IF "id" \in DOMAIN cell /\ NumEq(ystate["nbformat"], 4) /\ ystate["nbformatMinor"][2] < 4
    THEN Restrict(cell, (DOMAIN cell) \ {"id"})
    ELSE cell
StripId(cell) ==
    IF "id" \in DOMAIN cell /\ NumEq(ystate["nbformat"], 4) /\ NumLe(ystate["nbformatMinor"], 4)
    THEN Restrict(cell, (DOMAIN cell) \ {"id"})
    ELSE cell

to_json(ycs) == [i \in DOMAIN ycs |-> ycs[i].m]

SourceOk ==
    /\ "metadata" \in DOMAIN ymeta
    /\ "nbformat" \in DOMAIN ystate
    /\ "nbformatMinor" \in DOMAIN ystate

source ==
    IF ~SourceOk THEN [ok |-> FALSE, v |-> EmptyDict]
    ELSE LET cells == cast_cells(to_json(ycells), "float", "int")
             meta == [k \in DOMAIN ymeta |-> cast_dict(ymeta[k], "float", "int")]
         IN  [ok |-> TRUE,
              v |-> [cells |-> [i \in DOMAIN cells |-> StripId(cells[i])],
                     metadata |-> meta["metadata"],
                     nbformat |-> to_type(ystate["nbformat"], "int"),
                     nbformat_minor |-> to_type(ystate["nbformatMinor"], "int")]]

\* lines 83-91: to_json returns new objects; the casts and the removal of id
\* act on them. AfterGet is the stored cells once the getter has returned.
AfterGet_Shared(ycs) ==
    IF SourceOk THEN [i \in DOMAIN ycs |-> [ycs[i] EXCEPT !.m = StripId(@)]] ELSE ycs
AfterGet(ycs) == ycs

NbGetSource ==
    /\ last' = [Call("get", source.ok, <<>>) EXCEPT !.ret = source.v]
    /\ ycells' = AfterGet(ycells)
    /\ UNCHANGED <<ystate, ysource, ymeta, subs, subscriptions>>

---------------------------------------------------------------------------
(* YNotebook.source (setter) *)

DefaultCell_Markdown(u) ==
    [cell_type |-> "markdown", metadata |-> EmptyDict, source |-> <<>>, id |-> u]
DefaultCell(u) ==
    [cell_type |-> "code", execution_count |-> None, metadata |-> EmptyDict,
     outputs |-> <<>>, source |-> <<>>, id |-> u]

\* lines 129-138: the YMap of one cell; an empty source is built as " "
YCell(cell, h) ==
    [h |-> h,
     m |-> [k \in DOMAIN cell |->
              IF k = "source" THEN (IF cell[k] = <<>> THEN <<" ">> ELSE cell[k])
              ELSE cell[k]]]

\* handles of the containers the engine still refers to, and the i-th free one
UsedHandles == {s.c[2] : s \in subs}
CurrentHandles == {ycells[i].h : i \in DOMAIN ycells}
FreeHandles == Handles \ UsedHandles
NthFree_Reused(i) == i
NthFree(i) == CHOOSE h \in FreeHandles : Cardinality({g \in FreeHandles : g < h}) = i - 1

\* lines 118-120: the cell sequence once its full range is deleted
ClearedCells_Kept == ycells
ClearedCells == <<>>

\* lines 123-124: the state map once every key but "dirty" is deleted
ClearedState_All == EmptyDict
ClearedState == Restrict(ystate, {"dirty"})

\* lines 116-145: the first transaction, up to its end or to the KeyError
\* that leaves it; changed is the set of root containers it touched
Transaction1(nb) ==
    LET cleared == ClearedState
        changed == (IF Len(ycells) > 0 THEN {YCells} ELSE {})
                   \cup (IF DOMAIN ymeta # {} THEN {YMeta} ELSE {})
                   \cup (IF (DOMAIN ystate) \ {"dirty"} # {} THEN {YState} ELSE {})
        cells == nb["cells"]
        built == ClearedCells \o [i \in DOMAIN cells |-> YCell(cells[i], NthFree(i))]
        clear == {NthFree(i) : i \in {j \in DOMAIN cells : cells[j]["source"] = <<>>}}
        meta == [metadata |-> nb["metadata"]]
        out == [ok |-> FALSE, ycells |-> ClearedCells, ymeta |-> EmptyDict, ystate |-> cleared,
                changed |-> changed, clear |-> {}]
    IN  IF \E i \in DOMAIN cells : "source" \notin DOMAIN cells[i]
        THEN out
        ELSE IF "metadata" \notin DOMAIN nb
        THEN [out EXCEPT !.ycells = built, !.changed = changed \cup {YCells}]
        ELSE IF "nbformat" \notin DOMAIN nb
        THEN [out EXCEPT !.ycells = built, !.ymeta = meta,
                         !.changed = changed \cup {YCells, YMeta}]
        ELSE IF "nbformat_minor" \notin DOMAIN nb
        THEN [out EXCEPT !.ycells = built, !.ymeta = meta,
                         !.ystate = Put(cleared, "nbformat", nb["nbformat"]),
                         !.changed = changed \cup {YCells, YMeta, YState}]
        ELSE [ok |-> TRUE, ycells |-> built, ymeta |-> meta,
              ystate |-> Put(Put(cleared, "nbformat", nb["nbformat"]),
                             "nbformatMinor", nb["nbformat_minor"]),
              changed |-> changed \cup {YCells, YMeta, YState}, clear |-> clear]

\* lines 146-148: the second transaction deletes the placeholder character
Transaction2_Skipped(ycs, clear) == ycs
Transaction2_EverySpace(ycs, clear) ==
    [i \in DOMAIN ycs |->
        IF ycs[i].m["source"] = <<" ">>
        THEN [ycs[i] EXCEPT !.m = [@ EXCEPT !["source"] = Tail(@)]]
        ELSE ycs[i]]
Transaction2(ycs, clear) ==
    [i \in DOMAIN ycs |->
        IF ycs[i].h \in clear
        THEN [ycs[i] EXCEPT !.m = [@ EXCEPT !["source"] = Tail(@)]]
        ELSE ycs[i]]

\* ids the document holds; uuid4() returns one it does not
StoredIds == {ycells[i].m["id"] : i \in {j \in DOMAIN ycells : "id" \in DOMAIN ycells[j].m}}
NoUuid == "no-uuid"
uuid4(value) ==
    IF "cells" \in DOMAIN value /\ value["cells"] = <<>> THEN Uuids \ StoredIds ELSE {NoUuid}

\* line 101: the setter works on a deep copy; deepcopy(value, nb) is the
\* caller's object once the setter has turned its own object into nb
deepcopy_Shared(value, nb) == nb
deepcopy(value, nb) == value

\* lines 128-137: the setter's object once the loop has replaced source and
\* outputs, in every cell it reached, by the containers built from them
Working(nb) ==
    LET cells == nb["cells"]
        reached(i) == \A j \in 1 .. i : "source" \in DOMAIN cells[j]
    IN  Put(nb, "cells",
            [i \in DOMAIN cells |->
                IF reached(i)
                THEN [k \in DOMAIN cells[i] |->
                        IF k = "source" THEN CellSource(NthFree(i))
                        ELSE IF k = "outputs" THEN CellOutputs(NthFree(i))
                        ELSE cells[i][k]]
                ELSE cells[i]])

\* lines 116 and 146: two scopes one after the other, each committed when it
\* is left; the second is entered only when the first was left by its end.
\* A commit is the set of containers it changed and the cells it leaves.
Commits_OneScope(t1) ==
    <<[changed |-> t1.changed \cup {CellSource(h) : h \in t1.clear},
       ycells |-> Transaction2(t1.ycells, t1.clear)]>>
Commits_PerCell(t1) ==
    [i \in 1 .. Len(t1.ycells) |-> [changed |-> t1.changed, ycells |-> t1.ycells]]
    \o <<[changed |-> {CellSource(h) : h \in t1.clear},
          ycells |-> Transaction2(t1.ycells, t1.clear)]>>
Commits(t1) ==
    IF t1.ok
    THEN <<[changed |-> t1.changed, ycells |-> t1.ycells],
           [changed |-> {CellSource(h) : h \in t1.clear},
            ycells |-> Transaction2(t1.ycells, t1.clear)]>>
    ELSE <<[changed |-> t1.changed, ycells |-> t1.ycells]>>

NbSetSource(value) ==
    \E u \in uuid4(value) :
        IF "cells" \notin DOMAIN value
        THEN /\ last' = [Call("set", FALSE, <<>>) EXCEPT
                            !.nb = value,
                            !.caller = deepcopy(value, cast_all(value, "int", "float")),
                            !.mid = Committed(ycells, ymeta, ystate)]
             /\ UNCHANGED <<ystate, ysource, ycells, ymeta, subs, subscriptions>>
        ELSE LET nb0 == cast_all(value, "int", "float")
                 nb == IF nb0["cells"] = <<>>
                       THEN Put(nb0, "cells", <<DefaultCell(u)>>) ELSE nb0
             IN  /\ Len(nb["cells"]) <= Cardinality(FreeHandles)
                 /\ \E t1 \in {Transaction1(nb)} :
                    \E commits \in {Commits(t1)} :
                      /\ ycells' = commits[Len(commits)].ycells
                      /\ ymeta' = t1.ymeta
                      /\ ystate' = t1.ystate
                      /\ last' = [Call("set", t1.ok,
                                       [i \in DOMAIN commits |-> commits[i].changed])
                                  EXCEPT !.nb = value,
                                         !.caller = deepcopy(value, Working(nb)),
                                         !.mid = Committed(commits[1].ycells,
                                                           t1.ymeta, t1.ystate)]
                 /\ UNCHANGED <<ysource, subs, subscriptions>>

---------------------------------------------------------------------------
(* YNotebook.observe *)

\* lines 152-158: the containers observe subscribes to
Observed_NoOutputs ==
    UNION { {CellSource(ycells[i].h), CellMap(ycells[i].h)} : i \in DOMAIN ycells }
    \cup {YCells, YMeta}
Observed ==
    UNION { {CellSource(ycells[i].h), CellMap(ycells[i].h)}
            \cup (IF "outputs" \in DOMAIN ycells[i].m
                  THEN {CellOutputs(ycells[i].h)} ELSE {}) : i \in DOMAIN ycells }
    \cup {YCells, YMeta}

\* line 151: observe starts with self.unobserve()
Reset_Skipped == subs
Reset == Unobserved

NbObserve(callback) ==
    LET live == Reset
        new == {Observing(live, c, callback) : c \in Observed}
    IN  /\ WithinMaxSubs(live \cup new)
        /\ subs' = live \cup new
        /\ subscriptions' = [c \in Observed |-> SubscriptionId(live, c)]
        /\ last' = Call("observe", TRUE, <<>>)
        /\ UNCHANGED <<ystate, ysource, ycells, ymeta>>

\* characters of source text the cells hold together
RECURSIVE SourceChars(_)
SourceChars(ycs) ==
    IF ycs = <<>> THEN 0 ELSE Len(Head(ycs).m["source"]) + SourceChars(Tail(ycs))

\* a holder of the root types a character at the end of the i-th cell's source
TypeCell(i) ==
    /\ i \in DOMAIN ycells
    /\ SourceChars(ycells) < MaxText
    /\ ycells' = [ycells EXCEPT ![i].m["source"] = Append(@, "a")]
    /\ last' = [Call("type_cell", TRUE, <<{CellSource(ycells[i].h)}>>)
                 EXCEPT !.h = ycells[i].h]
    /\ UNCHANGED <<ystate, ysource, ymeta, subs, subscriptions>>

\* outputs the cells hold together
RECURSIVE OutputCount(_)
OutputCount(ycs) ==
    IF ycs = <<>> THEN 0
    ELSE (IF "outputs" \in DOMAIN Head(ycs).m THEN Len(Head(ycs).m["outputs"]) ELSE 0)
         + OutputCount(Tail(ycs))

\* a holder of the root appends an output to the i-th cell's outputs
AppendOutput(i) ==
    /\ i \in DOMAIN ycells
    /\ "outputs" \in DOMAIN ycells[i].m
    /\ OutputCount(ycells) < MaxOutputs
    /\ ycells' = [ycells EXCEPT ![i].m["outputs"] = Append(@, Num("int", 1, 0))]
    /\ last' = [Call("append_output", TRUE, <<{CellOutputs(ycells[i].h)}>>)
                 EXCEPT !.h = ycells[i].h]
    /\ UNCHANGED <<ystate, ysource, ymeta, subs, subscriptions>>

\* a holder of the root sets the metadata key of the i-th cell map
WriteCell(i) ==
    /\ i \in DOMAIN ycells
    /\ ycells' = [ycells EXCEPT ![i].m = Put(@, "metadata", EmptyDict)]
    /\ last' = [Call("write_cell", TRUE, <<{CellMap(ycells[i].h)}>>)
                 EXCEPT !.h = ycells[i].h]
    /\ UNCHANGED <<ystate, ysource, ymeta, subs, subscriptions>>

\* a holder of the root sets the metadata key of the metadata map
WriteMeta ==
    /\ ymeta' = Put(ymeta, "metadata", EmptyDict)
    /\ last' = Call("write_meta", TRUE, <<{YMeta}>>)
    /\ UNCHANGED <<ystate, ysource, ycells, subs, subscriptions>>

\* a holder of the root inserts a cell of its own at the end of the cell
\* sequence, without the content setter
InsertCell ==
    /\ Len(ycells) < MaxCells
    /\ \E h \in FreeHandles \ CurrentHandles :
          /\ \A g \in FreeHandles \ CurrentHandles : h <= g
          /\ ycells' = Append(ycells, [h |-> h,
                                       m |-> [cell_type |-> "markdown", source |-> <<>>,
                                              metadata |-> EmptyDict]])
          /\ last' = [Call("insert_cell", TRUE, <<{YCells}>>) EXCEPT !.h = h]
    /\ UNCHANGED <<ystate, ysource, ymeta, subs, subscriptions>>

---------------------------------------------------------------------------
(* The notebooks handed to the setter *)

\* a code cell whose source is the placeholder character itself, a markdown
\* cell with no source text and no id, and a cell that lacks its source
CellA == [cell_type |-> "code", source |-> <<" ">>, metadata |-> EmptyDict,
          outputs |-> <<>>, execution_count |-> Num("int", 1, 0), id |-> "id-1"]
CellB == [cell_type |-> "markdown", source |-> <<>>, metadata |-> EmptyDict]
CellNoSource == [cell_type |-> "markdown", metadata |-> EmptyDict, id |-> "id-1"]

Cells == {CellA, CellB, CellNoSource}
CellLists == UNION {[1 .. n -> Cells] : n \in 0 .. MaxCells}

Notebook(cells, metadata, nbformat, nbformat_minor) ==
    [cells |-> cells, metadata |-> metadata,
     nbformat |-> Num("int", nbformat, 0), nbformat_minor |-> Num("int", nbformat_minor, 0)]

Formats(cells) ==
    { Notebook(cells, [n |-> Num("float", 1, 5)], 4, 5),
      Notebook(cells, [n |-> Num("float", 1, 0)], 4, 5),
      Notebook(cells, EmptyDict, 4, 4),
      Notebook(cells, EmptyDict, 3, 4) }

Without(nb, key) == Restrict(nb, (DOMAIN nb) \ {key})

\* notebooks that lack a required key
Malformed ==
    { Without(Notebook(cells, EmptyDict, 4, 5), key) :
        cells \in {c \in CellLists : Len(c) <= 1},
        key \in {"metadata", "nbformat", "nbformat_minor"} }
    \cup { Without(Notebook(<<>>, EmptyDict, 4, 5), "cells") }

Notebooks == UNION {Formats(cells) : cells \in CellLists} \cup Malformed

---------------------------------------------------------------------------
(* A notebook document: content, dirty flag and the shared state map *)

Next ==
    \/ \E value \in Notebooks : NbSetSource(value)
    \/ NbGetSource
    \/ \E value \in BOOLEAN : SetDirty(value)
    \/ \E value \in BOOLEAN : WriteState("dirty", value)
    \/ WriteState("path", "p")

Spec == Init /\ [][Next]_vars

---------------------------------------------------------------------------
(* A text document: content, dirty flag, observers *)

NextFile ==
    \/ \E value \in Texts : FileSetSource(value)
    \/ FileGetSource
    \/ \E callback \in Callbacks : FileObserve(callback)
    \/ Unobserve
    \/ \E ch \in Chars : TypeText(ch)
    \/ \E value \in BOOLEAN : SetDirty(value)
    \/ \E value \in BOOLEAN : WriteState("dirty", value)

SpecFile == Init /\ [][NextFile]_vars

---------------------------------------------------------------------------
(* An observed notebook: well-formed notebooks of one format, observers and *)
(* edits of the cells' sources                                              *)

ObservedNotebooks ==
    {Notebook(cells, EmptyDict, 4, 5) :
        cells \in UNION {[1 .. n -> {CellA, CellB}] : n \in 0 .. MaxCells}}

NextObserved ==
    \/ \E value \in ObservedNotebooks : NbSetSource(value)
    \/ \E callback \in Callbacks : NbObserve(callback)
    \/ Unobserve
    \/ \E i \in 1 .. MaxCells : TypeCell(i)

SpecObserved == Init /\ [][NextObserved]_vars

---------------------------------------------------------------------------
(* A watched notebook: one observer, and holders of the root that edit every *)
(* container of it and insert cells of their own                            *)

WatchedNotebooks ==
    {Notebook(<<CellA>>, EmptyDict, 4, 5), Notebook(<<CellB, CellA>>, EmptyDict, 4, 5)}

NextWatched ==
    \/ \E value \in WatchedNotebooks : NbSetSource(value)
    \/ NbObserve("cb1")
    \/ \E i \in 1 .. MaxCells : TypeCell(i)
    \/ \E i \in 1 .. MaxCells : AppendOutput(i)
    \/ \E i \in 1 .. MaxCells : WriteCell(i)
    \/ WriteMeta
    \/ InsertCell
    \/ WriteState("path", "p")

SpecWatched == Init /\ [][NextWatched]_vars

---------------------------------------------------------------------------
(* What the claims speak of *)

\* the last call was a content-set of the notebook that returned
SetDone == last.op = "set" /\ last.ok

\* every required key is there, in the notebook and in each of its cells
WellFormed(nb) ==
    /\ DOMAIN nb = {"cells", "metadata", "nbformat", "nbformat_minor"}
    /\ \A i \in DOMAIN nb["cells"] : "source" \in DOMAIN nb["cells"][i]

\* the format that predates cell ids: nbformat == 4 and nbformat_minor <= 4
Format(nb) == <<nb["nbformat"], nb["nbformat_minor"]>>
PredatesIds(fmt) == NumEq(fmt[1], 4) /\ NumLe(fmt[2], 4)
Modern(nb) == ~NumLe(nb["nbformat_minor"], 4)

\* N up to numeric-kind normalization: N with every float leaf made an int
Normalized(nb) == cast_all(nb, "float", "int")

NoId(cell) == Restrict(cell, (DOMAIN cell) \ {"id"})

---------------------------------------------------------------------------
(* C1 *)

\* C1 as stated: for every notebook N with nbformat_minor > 4 and from every
\* prior state, the content read right after set(content, N) is N up to
\* numeric-kind normalization, cells in N's order, each with N's id.
C1_RoundTripAnyNotebook ==
    (last.op = "set" /\ WellFormed(last.nb) /\ Modern(last.nb))
        => (last.ok /\ source.ok /\ source.v = Normalized(last.nb))

\* C1 as amended: the same for every such N whose cells list is not empty
\* (an empty list is repaired into one default cell, which N does not hold).
C1_RoundTripNonEmpty ==
    (last.op = "set" /\ WellFormed(last.nb) /\ Modern(last.nb)
        /\ last.nb["cells"] # <<>>)
        => (last.ok /\ source.ok /\ source.v = Normalized(last.nb))

\* two cells, one with an id and one with none and with empty source, and a
\* non-integral float in the metadata, set over a document that held a dirty
\* flag and another state key
C1_Witness ==
    /\ SetDone
    /\ last.nb["cells"] = <<CellB, CellA>>
    /\ last.nb["metadata"] = [n |-> Num("float", 1, 5)]
    /\ Modern(last.nb)
    /\ "dirty" \in DOMAIN ystate
    /\ Len(ycells) = 2 /\ ycells[1].m["source"] = <<>>

---------------------------------------------------------------------------
(* C2 *)

\* C2: for every notebook N with nbformat == 4 and nbformat_minor <= 4, the
\* content read after set(content, N) has no "id" on any cell, whether the
\* cells of N carried ids or not.
C2_IdStripped ==
    (last.op = "set" /\ WellFormed(last.nb) /\ PredatesIds(Format(last.nb)))
        => (last.ok /\ source.ok
            /\ \A i \in DOMAIN source.v["cells"] : "id" \notin DOMAIN source.v["cells"][i])

\* a 4.4 notebook whose cell carried an id, which the stored cell still holds
C2_Witness ==
    /\ SetDone
    /\ PredatesIds(Format(last.nb))
    /\ last.nb["cells"] = <<CellA, CellB>>
    /\ ycells[1].m["id"] = "id-1"
    /\ Len(source.v["cells"]) = 2

---------------------------------------------------------------------------
(* C3 *)

\* C3 as stated: after a content-set every stored cell has an "id" field, and
\* a cell of the returned notebook carries "id" exactly when the format is
\* not (nbformat == 4 and nbformat_minor <= 4).
C3_IdAlwaysStored ==
    SetDone =>
        /\ \A i \in DOMAIN ycells : "id" \in DOMAIN ycells[i].m
        /\ source.ok
        /\ \A i \in DOMAIN source.v["cells"] :
              ("id" \in DOMAIN source.v["cells"][i])
                  <=> ~PredatesIds(<<ystate["nbformat"], ystate["nbformatMinor"]>>)

---------------------------------------------------------------------------
(* C4 *)

\* the cell C4 names: a code cell with null execution count, empty metadata,
\* outputs and source, and the id u
RepairCell(u) ==
    [cell_type |-> "code", execution_count |-> None, metadata |-> EmptyDict,
     outputs |-> <<>>, source |-> <<>>, id |-> u]

\* a step that sets a notebook with an empty cells list leaves one stored
\* cell, RepairCell(u) with an id u that no stored cell had before, and the
\* getter then returns the one cell returned[u]
Repaired(returned) ==
    \E u \in Uuids \ StoredIds :
        /\ Len(ycells') = 1
        /\ ycells'[1].m = RepairCell(u)
        /\ source'.ok
        /\ source'.v["cells"] = <<returned[u]>>

EmptySet == last'.op = "set" /\ last'.ok /\ last'.nb["cells"] = <<>>

---------------------------------------------------------------------------
(* C5 *)

\* C5: for a text document in any state and any string v, the empty one
\* included, get(content) after set(content, v) returns exactly v (the old
\* text is gone, not concatenated), and the setter took one transaction.
C5_TextRoundTrip ==
    last.op = "file_set" => (last.ok /\ FileSource = last.text /\ Len(last.tx) = 1)

\* the empty string was set over a text that was not empty: the one
\* transaction changed the text, and the text reads empty
C5_Witness ==
    /\ last.op = "file_set" /\ last.text = <<>> /\ last.tx = <<{YSource}>>
    /\ FileSource = <<>>

---------------------------------------------------------------------------
(* C6 *)

\* C6: setting dirty to its current value opens no transaction and fires no
\* change event; setting it to a different value opens exactly one
\* transaction, which fires exactly one change event (on the state map), and
\* dirty then reads the new value.
C6_DirtyNoOp ==
    [][ (last'.op = "dirty" /\ dirty.ok) =>
            IF dirty.v = last'.flag
            THEN last'.tx = <<>> /\ ystate' = ystate
            ELSE /\ last'.tx = <<{YState}>>
                 /\ dirty'.ok /\ dirty'.v = last'.flag
                 /\ last'.ok ]_vars

\* dirty was false and was set to true: one transaction, one event
C6_Witness ==
    /\ last.op = "dirty" /\ last.ok
    /\ last.tx = <<{YState}>>
    /\ dirty.ok /\ dirty.v = TRUE /\ last.flag = TRUE

---------------------------------------------------------------------------
(* C7 *)

\* C7 as stated: after unobserve() the registry is empty and every
\* subscription the document ever created is released, so that, until the
\* next observe, no callback registered through the document fires.
C7_UnobserveReleasesAll ==
    /\ last.op = "unobserve" => (subscriptions = EmptyDict /\ subs = {})
    /\ subscriptions = EmptyDict => last.fired = NoFired

---------------------------------------------------------------------------
(* C8 *)

\* C8: once observe(callback) has run on a notebook, however many times, one
\* edit of the source of a cell it found calls the registered callback
\* exactly once, and calls no other callback.
C8_OncePerEdit ==
    (last.op = "type_cell" /\ CellSource(last.h) \in DOMAIN subscriptions) =>
        \E s \in subs :
            /\ s.c = CellSource(last.h) /\ s.id = subscriptions[s.c]
            /\ last.fired = [cb \in Callbacks |-> IF cb = s.cb THEN 1 ELSE 0]

\* the second cell of an observed notebook was edited; cb2 was called once
C8_Witness ==
    /\ last.op = "type_cell"
    /\ Len(ycells) = 2 /\ last.h = ycells[2].h
    /\ CellSource(last.h) \in DOMAIN subscriptions
    /\ last.fired = [cb \in Callbacks |-> IF cb = "cb2" THEN 1 ELSE 0]

---------------------------------------------------------------------------
(* C9 *)

\* C9 as stated: when the content setter fails inside its first transaction
\* (a cell without "source", a notebook without "metadata", "nbformat" or
\* "nbformat_minor"), nothing of that transaction is committed: the cells,
\* the metadata map and the state map are as before the call.
C9_NothingCommittedOnError ==
    [][ (last'.op = "set" /\ ~last'.ok /\ "cells" \in DOMAIN last'.nb) =>
            (ycells' = ycells /\ ymeta' = ymeta /\ ystate' = ystate) ]_vars

---------------------------------------------------------------------------
(* C10 *)

\* C10: a content-set leaves the "dirty" entry of the state map as it was
\* (same presence, same value) and removes every other key it held, so that
\* the map then holds only "dirty" (if it was there), "nbformat" and
\* "nbformatMinor".
C10_DirtyKept ==
    [][ (last'.op = "set") =>
            /\ ("dirty" \in DOMAIN ystate') <=> ("dirty" \in DOMAIN ystate)
            /\ ("dirty" \in DOMAIN ystate) => ystate'["dirty"] = ystate["dirty"]
            /\ "cells" \in DOMAIN last'.nb =>
                  DOMAIN ystate' \subseteq {"dirty", "nbformat", "nbformatMinor"}
            /\ last'.ok =>
                  DOMAIN ystate' =
                      ((DOMAIN ystate) \cap {"dirty"}) \cup {"nbformat", "nbformatMinor"} ]_vars

\* a content-set over a state map that holds a true dirty flag
C10_Witness ==
    /\ SetDone
    /\ DOMAIN ystate = {"dirty", "nbformat", "nbformatMinor"}
    /\ ystate["dirty"] = TRUE

---------------------------------------------------------------------------
(* C11 *)

\* the cells the setter stores for N: N's cells, or the one default cell
Incoming(nb, u) == IF nb["cells"] = <<>> THEN <<RepairCell(u)>> ELSE nb["cells"]

\* the content read after set(content, N) alone on a new document
FreshRead(nb, u) ==
    LET cells == Incoming(nb, u)
    IN  Normalized([nb EXCEPT !["cells"] =
                        [i \in DOMAIN cells |->
                            IF PredatesIds(Format(nb)) THEN NoId(cells[i]) ELSE cells[i]]])

\* C11: for any notebooks N1 and N2, the content read after set(content, N1)
\* and then set(content, N2) is the content read after set(content, N2)
\* alone on a new document (up to the generated id of a repaired empty
\* notebook); no cell, metadata key or format field of N1 survives.
C11_FullReplacement ==
    (last.op = "set" /\ WellFormed(last.nb)) =>
        /\ last.ok /\ source.ok
        /\ \E u \in Uuids : source.v = FreshRead(last.nb, u)
        /\ Len(ycells) = Len(Incoming(last.nb, "uuid-1"))
        /\ DOMAIN ymeta = {"metadata"}
        /\ (DOMAIN ystate) \ {"dirty"} = {"nbformat", "nbformatMinor"}

\* a 4.4 notebook with one cell and no metadata was set over a document that
\* was not new (its state map held a dirty flag)
C11_Witness ==
    /\ SetDone
    /\ last.nb = Notebook(<<CellB>>, EmptyDict, 4, 4)
    /\ "dirty" \in DOMAIN ystate
    /\ Len(ycells) = 1

---------------------------------------------------------------------------
(* C14 *)

\* C14: when the content setter returns, every cell whose input source was
\* the empty string holds a text of length 0, and every other cell holds
\* exactly its input source; a cell whose input source is " " keeps it.
C14_PlaceholderRemoved ==
    SetDone =>
        \E u \in Uuids :
            /\ DOMAIN ycells = DOMAIN Incoming(last.nb, u)
            /\ \A i \in DOMAIN ycells :
                  IF Incoming(last.nb, u)[i]["source"] = <<>>
                  THEN Len(ycells[i].m["source"]) = 0
                  ELSE ycells[i].m["source"] = Incoming(last.nb, u)[i]["source"]

\* a cell with source " " and a cell with empty source were set
C14_Witness ==
    /\ SetDone
    /\ last.nb["cells"] = <<CellA, CellB>>
    /\ ycells[1].m["source"] = <<" ">>
    /\ ycells[2].m["source"] = <<>>

---------------------------------------------------------------------------
(* C19 *)

\* C19 as stated: on a document whose state map has no "dirty" key, setting
\* dirty to a boolean v succeeds with one transaction and dirty then reads v.
C19_DirtyOnFreshDocument ==
    [][ (last'.op = "dirty" /\ "dirty" \notin DOMAIN ystate) =>
            /\ last'.ok
            /\ Len(last'.tx) = 1
            /\ dirty'.ok /\ dirty'.v = last'.flag ]_vars

---------------------------------------------------------------------------
(* C12 *)

---------------------------------------------------------------------------
(* C15 *)

\* the text the first transaction builds for an input source
Placeholder(text) == IF text = <<>> THEN <<" ">> ELSE text

\* C15: the content setter commits exactly two transactions, the second after
\* the first; the state committed between them already holds all new cells,
\* the metadata and the format fields, and every cell whose input source was
\* empty holds the one-character placeholder there.
C15_TwoTransactions ==
    SetDone =>
        /\ Len(last.tx) = 2
        /\ {YCells, YMeta, YState} \subseteq last.tx[1]
        /\ last.tx[2] \cap {YCells, YMeta, YState} = {}
        /\ last.mid.ymeta = ymeta /\ "metadata" \in DOMAIN last.mid.ymeta
        /\ last.mid.ystate = ystate
        /\ {"nbformat", "nbformatMinor"} \subseteq DOMAIN last.mid.ystate
        /\ \E u \in Uuids :
              /\ DOMAIN last.mid.ycells = DOMAIN Incoming(last.nb, u)
              /\ \A i \in DOMAIN last.mid.ycells :
                    /\ last.mid.ycells[i].m["source"]
                          = Placeholder(Incoming(last.nb, u)[i]["source"])
                    /\ last.mid.ycells[i].m["cell_type"]
                          = Incoming(last.nb, u)[i]["cell_type"]
                    /\ (Incoming(last.nb, u)[i]["source"] = <<>>) =>
                          /\ CellSource(last.mid.ycells[i].h) \in last.tx[2]
                          /\ ycells[i].m["source"] = <<>>

\* two cells were set, the second with empty source: between the two commits
\* it held the placeholder, after the second it is empty
C15_Witness ==
    /\ SetDone
    /\ last.nb["cells"] = <<CellA, CellB>>
    /\ last.mid.ycells[2].m["source"] = <<" ">>
    /\ ycells[2].m["source"] = <<>>
    /\ Len(last.tx) = 2

---------------------------------------------------------------------------
(* C13 *)

---------------------------------------------------------------------------
(* C16 *)

\* change events of the last call delivered to a subscription on container c
Delivered(c) == Cardinality({i \in DOMAIN last.tx : c \in last.tx[i]})

\* C16: a content-set on an observed notebook delivers exactly one change
\* event to the subscription on the top-level cell sequence, whatever the
\* number of incoming cells and whether or not the document held cells.
C16_OneStructuralEvent ==
    (SetDone /\ YCells \in DOMAIN subscriptions) =>
        /\ Delivered(YCells) = 1
        /\ YCells \in last.tx[1]
        /\ \A s \in subs :
              (s.c = YCells /\ s.id = subscriptions[YCells]) => last.fired[s.cb] >= 1

\* two cells were set on an observed notebook that held observed cells before
C16_Witness ==
    /\ SetDone /\ YCells \in DOMAIN subscriptions
    /\ Len(last.nb["cells"]) = 2
    /\ \E h \in Handles \ CurrentHandles : CellSource(h) \in DOMAIN subscriptions
    /\ Delivered(YCells) = 1

---------------------------------------------------------------------------
(* C17 *)

\* the containers of the notebook as it stands: source and map of every
\* cell, outputs of the cells that have them, the cell sequence, the metadata
Watched ==
    {CellSource(h) : h \in CurrentHandles} \cup {CellMap(h) : h \in CurrentHandles}
    \cup {CellOutputs(ycells[i].h) : i \in {j \in DOMAIN ycells : "outputs" \in DOMAIN ycells[j].m}}
    \cup {YCells, YMeta}

\* C17: right after observe(callback) on a notebook the registry holds one
\* subscription for each current cell's source, for each current cell's
\* outputs when it has outputs, for each current cell map, for the cell
\* sequence and for the metadata map, and nothing else; a change to a
\* container of the registry invokes the callback, a change to the state map
\* only invokes none.
C17_ObservedSet ==
    /\ last.op = "observe" =>
          /\ DOMAIN subscriptions = Watched
          /\ \A c \in Watched : Cardinality({s \in subs : s.c = c}) = 1
          /\ \A s \in subs : s.c \in Watched /\ s.id = subscriptions[s.c]
    /\ \A i \in DOMAIN last.tx :
          \A c \in last.tx[i] \cap DOMAIN subscriptions :
             \E s \in subs : s.c = c /\ s.id = subscriptions[c] /\ last.fired[s.cb] >= 1
    /\ (last.tx # <<>> /\ \A i \in DOMAIN last.tx : last.tx[i] \subseteq {YState}) =>
          last.fired = NoFired

\* observe ran on a notebook of two cells, one of them with outputs: seven
\* containers are in the registry
C17_Witness ==
    /\ last.op = "observe"
    /\ Len(ycells) = 2
    /\ \E i, j \in DOMAIN ycells :
          "outputs" \in DOMAIN ycells[i].m /\ "outputs" \notin DOMAIN ycells[j].m
    /\ Cardinality(DOMAIN subscriptions) = 7

---------------------------------------------------------------------------
(* C18 *)

\* C18: after observe(callback), the containers of cells that enter the cell
\* sequence later, by an insertion or by a content-set, are not subscribed:
\* the registry and the subscriptions stay those of observe time and an edit
\* of such a cell's source invokes no callback; once observe has run again
\* every current cell's source is in the registry and its edit invokes the
\* callback.
C18_NoResubscription ==
    [][ /\ last'.op \in {"set", "insert_cell"} =>
              /\ subscriptions' = subscriptions /\ subs' = subs
              /\ \A h \in CurrentHandles' \ CurrentHandles :
                    /\ CellSource(h) \notin DOMAIN subscriptions'
                    /\ \A s \in subs' : s.c # CellSource(h)
        /\ (last'.op = "type_cell" /\ CellSource(last'.h) \notin DOMAIN subscriptions') =>
              last'.fired = NoFired
        /\ last'.op = "observe" =>
              \A h \in CurrentHandles' : CellSource(h) \in DOMAIN subscriptions'
        /\ (last'.op = "type_cell" /\ CellSource(last'.h) \in DOMAIN subscriptions') =>
              \E cb \in Callbacks : last'.fired[cb] = 1 ]_vars

\* on an observed notebook, the source of a cell that entered after observe
\* was edited and no callback ran
C18_Witness ==
    /\ last.op = "type_cell"
    /\ YCells \in DOMAIN subscriptions
    /\ last.h \in CurrentHandles
    /\ CellSource(last.h) \notin DOMAIN subscriptions
    /\ last.fired = NoFired

====
